---- MODULE Spec2Model ----
(***************************************************************************)
(* Model of the query routing and answer pipeline of RAGBackend            *)
(* (src/backend/rag_engine.py): construction of the backend, and           *)
(* get_response with its classification, branch, retrieval (similarity    *)
(* search then rerank), generation and normalisation steps.  External      *)
(* collaborators (the two language models, the vector store, the          *)
(* reranker) are nondeterministic: each call either returns a value        *)
(* drawn from a small set or raises.                                       *)
(***************************************************************************)
EXTENDS Integers, Sequences, FiniteSets, TLC

(* ------------------------------ bounds --------------------------------- *)

\* longest query text, in characters
MaxQueryLen == 2
\* most candidates the similarity search returns in the model
MaxDocs == 9
\* refined relevance scores are 0..MaxScore
MaxScore == 1
\* most passages of one Stage-1 result with a non-zero refined score
MaxRelevant == 1
\* longest topic list a knowledge-scope file holds
MaxTopics == 9
\* most reloads of the knowledge scope in one run
MaxReloads == 1

\* largest passage index a citation marker of an answer carries
MaxCite == 3

\* longest answer text, in pieces (plain runs and markers)
MaxAnswerLen == 2

\* longest evidence list given to the chat window
MaxSources == 2

\* messages the user sends in the chat window
MaxSends == 2

\* longest Stage-1 result of a request that runs beside another one
MaxConcDocs == 2

(* ------------------------- program constants --------------------------- *)

\* search_kwargs={"k": 20}
SearchK == 20
\* FlashrankRerank(top_n=8, ...)
TopN == 8
\* ChatOpenAI(max_retries=2, ...)
MaxRetries == 2
\* self.knowledge_scope[:8]
ScopeShown == 8

(* ------------------------------ values --------------------------------- *)

\* a query is a sequence of characters; " " stands for any whitespace
Chars == {" ", "a"}

RECURSIVE SeqsUpTo(_, _)
SeqsUpTo(S, n) ==
    IF n = 0 THEN {<<>>}
    ELSE LET shorter == SeqsUpTo(S, n - 1)
         IN  shorter \cup {Append(s, x) : s \in {t \in shorter : Len(t) = n - 1}, x \in S}

Queries == SeqsUpTo(Chars, MaxQueryLen)

\* str.strip(): drop leading and trailing whitespace
RECURSIVE LStrip(_)
LStrip(s) == IF s # <<>> /\ Head(s) = " " THEN LStrip(Tail(s)) ELSE s

RECURSIVE RStrip(_)
RStrip(s) ==
    IF s # <<>> /\ s[Len(s)] = " " THEN RStrip(SubSeq(s, 1, Len(s) - 1)) ELSE s

Strip(s) == RStrip(LStrip(s))

\* the fixed results of get_response
InvalidQueryResult ==
    [answer |-> "Per favore, inserisci una domanda valida.", source_documents |-> <<>>]

UnavailableResult ==
    [answer |-> "Sistema non disponibile. Riprova piu tardi.", source_documents |-> <<>>]

TechnicalErrorResult ==
    [answer |-> "Mi dispiace, si e verificato un errore tecnico. Per favore riprova.",
     source_documents |-> <<>>]

\* no result yet
NoResult == [answer |-> "", source_documents |-> <<>>]

\* texts the main language model may produce
LLMTexts == {"testo-1", "testo-2"}

\* what the router model may answer to the structured-output call: one of
\* the three labels, a value outside them, or no tool call at all
RawResponses == {"pertinente", "non_pertinente", "conversazionale", "altro", "None"}

\* state of the vector index when the backend is constructed
IndexStates == {"populated", "empty", "error"}

(* ------------------------------- state --------------------------------- *)

VARIABLES
    index_state,            \* the vector index found at construction
    llm_main,               \* self.llm_main is not None
    llm_router,             \* self.llm_router is not None
    compression_retriever,  \* self.compression_retriever is not None
    full_chain,             \* self.full_chain is not None
    scope_source,           \* knowledge_scope.json as found at construction
    constructed,            \* "ok", or "failed" when __init__ raised
    knowledge_scope,        \* self.knowledge_scope
    pc,                     \* position of the request inside get_response
    query,                  \* the argument of get_response
    calls,                  \* collaborator calls made by this request, in order
    raw_response,           \* what the router model answered ("unset" before it does)
    destination,            \* output of the classification chain
    strategies,             \* answer strategies the branch has started
    candidates,             \* Stage-1 result of the base retriever
    source_documents,       \* x["source_documents"]: what the retriever returned
    context,                \* x["context"]: the block given to the prompt
    chain_result,           \* what full_chain.invoke returned
    raised,                 \* the step of the try block that raised
    attempts,               \* failed attempts of the model call in progress
    console,                \* what the except clause printed for this request
    outcome,                \* how get_response ended
    result,                 \* the value get_response returned
    fault_log,              \* the entries of backend_errors.log
    reloads,                \* reload_knowledge_scope calls so far
    rd_pc,                  \* position inside _format_knowledge_scope
    rd_seen,                \* values self.knowledge_scope had during the rendering
    rd_items,               \* scope_items
    rd_text,                \* formatted
    status,                 \* what get_system_status returned last
    reload_error,           \* the exception the last reload_knowledge_scope caught
    ui_entry,               \* the text in self.entry
    ui_state,               \* state of self.entry and self.send_button
    ui_threads,             \* prompts of the worker threads that are running
    ui_after,               \* response dicts posted with self.after(0, ...)
    ui_chat,                \* the messages in the chat history frame
    reqs                    \* the locals of each get_response call in flight

backend == <<index_state, llm_main, llm_router, compression_retriever, full_chain,
             scope_source, constructed, knowledge_scope>>

request == <<pc, query, calls, raw_response, destination, strategies, candidates,
             source_documents, context, chain_result, raised, attempts, console,
             outcome, result>>

render == <<reloads, rd_pc, rd_seen, rd_items, rd_text, reload_error>>

\* the chat window and the calls of several callers
window == <<ui_entry, ui_state, ui_threads, ui_after, ui_chat>>

front == <<window, reqs>>

\* what get_response never assigns
outside == <<backend, render, status, fault_log, front>>

vars == <<backend, request, render, status, fault_log, front>>

(* ------------------------- construction (__init__) --------------------- *)

\* variant: an empty collection is accepted
InitializeRetrieverAcceptsEmpty(idx) == idx # "error"

\* _initialize_retriever: the retriever exists only if opening the index
\* did not raise and the collection is not empty
InitializeRetriever(idx) == idx = "populated"

\* variant: the chain is left unbuilt whatever the retriever is
BuildChainArchitectureLeavesNone(retriever) == FALSE

\* variant: the chain is built even though the retriever is missing
BuildChainArchitectureNoGuard(retriever) == TRUE

\* _build_chain_architecture: returns early, leaving full_chain None, when
\* the retriever is missing
BuildChainArchitecture(retriever) == IF ~retriever THEN FALSE ELSE TRUE

(* --------------------------- knowledge scope --------------------------- *)

\* the value of self.knowledge_scope: a list of topics, or a value that is
\* no list (a number found under the scope key)
ListScope(topics) == [kind |-> "list", topics |-> topics]

NumberScope == [kind |-> "number", topics |-> <<>>]

\* the topic list of length n a file holds; topic <<n, i>> is its i-th entry
FileTopics(n) == [i \in 1..n |-> <<n, i>>]

\* _create_default_knowledge_scope: the eight built-in topics
DefaultKnowledgeScope == ListScope([i \in 1..8 |-> <<0, i>>])

\* what open() and json.load() can find at the path: no file, a file that
\* cannot be read, text that is no JSON, JSON that is no object, an object
\* without the scope key, an object whose scope is a number, an object whose
\* scope is a list of n topics
ScopeSources ==
    {[kind |-> k, n |-> 0] :
        k \in {"absent", "unreadable", "corrupt", "not_object", "no_scope_key",
               "scope_number"}}
    \cup {[kind |-> "scope_list", n |-> n] : n \in 0..MaxTopics}

\* data.get("scope", []) for a source that parses to an object
ScopeOf(src) ==
    IF src.kind = "scope_list" THEN ListScope(FileTopics(src.n))
    ELSE IF src.kind = "scope_number" THEN NumberScope
    ELSE ListScope(<<>>)

\* the truth value of a scope: an empty list is false, a number is true
Truthy(ks) == ks.kind = "number" \/ ks.topics # <<>>

\* _load_knowledge_scope: FileNotFoundError and JSONDecodeError give the
\* default list, and so does an empty scope; any other exception (the file
\* cannot be read, data has no get, len() of a number in the message)
\* leaves the method and __init__
LoadKnowledgeScope(src) ==
    IF src.kind \in {"absent", "corrupt"}
    THEN [raises |-> FALSE, scope |-> DefaultKnowledgeScope]
    ELSE IF src.kind \in {"unreadable", "not_object"}
    THEN [raises |-> TRUE, scope |-> ListScope(<<>>)]
    ELSE IF ~Truthy(ScopeOf(src))
    THEN [raises |-> FALSE, scope |-> DefaultKnowledgeScope]
    ELSE IF ScopeOf(src).kind = "number"
    THEN [raises |-> TRUE, scope |-> ScopeOf(src)]
    ELSE [raises |-> FALSE, scope |-> ScopeOf(src)]

\* variant: a reload that cannot read its source falls back to the default
\* list, as the load at startup does
ReloadKnowledgeScopeDefaultOnFailure(current, src) ==
    IF src.kind \in {"absent", "unreadable", "corrupt", "not_object"}
    THEN DefaultKnowledgeScope
    ELSE ScopeOf(src)

\* reload_knowledge_scope: the scope is assigned as soon as data.get
\* returns; every exception, before or after the assignment, is caught
ReloadKnowledgeScope(current, src) ==
    IF src.kind \in {"absent", "unreadable", "corrupt", "not_object"}
    THEN current
    ELSE ScopeOf(src)

\* the exception the except clause of reload_knowledge_scope prints: open()
\* fails on a missing or unreadable file, json.load on text that is no
\* JSON, data.get on JSON that is no object, len() on a numeric scope
ReloadError(src) ==
    IF src.kind = "absent" THEN "FileNotFoundError"
    ELSE IF src.kind = "unreadable" THEN "OSError"
    ELSE IF src.kind = "corrupt" THEN "JSONDecodeError"
    ELSE IF src.kind = "not_object" THEN "AttributeError"
    ELSE IF src.kind = "scope_number" THEN "TypeError"
    ELSE "none"

(* --------------------------- classification ---------------------------- *)

\* RouteQuery.destination: Literal["pertinente", "non_pertinente", "conversazionale"]
RouteQuery == {"pertinente", "non_pertinente", "conversazionale"}

\* llm_router.with_structured_output(RouteQuery): no tool call gives None,
\* a label of the Literal gives a RouteQuery object, and any other value is
\* rejected by the validation of the Literal field, which raises
StructuredOutput(raw) ==
    IF raw = "None" THEN [raises |-> FALSE, x |-> "None"]
    ELSE IF raw \in RouteQuery THEN [raises |-> FALSE, x |-> raw]
    ELSE [raises |-> TRUE, x |-> "None"]

\* lambda x: x.destination if x else "non_pertinente"
CoerceDestination(x) == IF x # "None" THEN x ELSE "non_pertinente"

\* the classification chain: route_prompt | structured output | lambda
ClassificationChain(raw) ==
    LET out == StructuredOutput(raw)
    IN  IF out.raises THEN [raises |-> TRUE, destination |-> "none"]
        ELSE [raises |-> FALSE, destination |-> CoerceDestination(out.x)]

(* ------------------------------- branch -------------------------------- *)

\* variant: the conversational and the default arm are exchanged
BranchArmsExchanged(dest) ==
    IF dest = "pertinente" THEN "rag"
    ELSE IF dest = "conversazionale" THEN "refusal"
    ELSE "conversational"

\* variant: the first condition tests for the substring "pertinente", which
\* "non_pertinente" contains as well
BranchSubstringMatch(dest) ==
    IF dest \in {"pertinente", "non_pertinente"} THEN "rag"
    ELSE IF dest = "conversazionale" THEN "conversational"
    ELSE "refusal"

\* RunnableBranch: the first condition that holds selects the chain, the
\* default is the refusal chain
Branch(dest) ==
    IF dest = "pertinente" THEN "rag"
    ELSE IF dest = "conversazionale" THEN "conversational"
    ELSE "refusal"

\* variant: the RAG chain calls the main model first
ChainEntryGenerateFirst(strategy) == "generate"

\* the first step of the chain the branch selected: the RAG chain starts
\* with the assignment of source_documents from the retriever, the other
\* two chains go to the prompt and the main model
ChainEntry(strategy) == IF strategy = "rag" THEN "search" ELSE "generate"

(* ------------------------------ retrieval ------------------------------ *)

\* the Stage-1 results of length n: a passage is [id, score], id its
\* position in the Stage-1 result and score the refined relevance the
\* reranker computes for it against the query; the passages at the
\* positions in S have a non-zero score
CandidateLists(n) ==
    UNION {{[i \in 1..n |-> [id |-> i, score |-> IF i \in S THEN g[i] ELSE 0]] :
                g \in [S -> 1..MaxScore]} :
           S \in {T \in SUBSET (1..n) : Cardinality(T) <= MaxRelevant}}

Min(a, b) == IF a < b THEN a ELSE b

\* sort by descending score; equal scores keep their order (list.sort with
\* reverse=True is stable)
RECURSIVE InsertDesc(_, _)
InsertDesc(sorted, d) ==
    IF sorted = <<>> THEN <<d>>
    ELSE IF Head(sorted).score >= d.score
         THEN <<Head(sorted)>> \o InsertDesc(Tail(sorted), d)
         ELSE <<d>> \o sorted

RECURSIVE SortDesc(_)
SortDesc(docs) ==
    IF docs = <<>> THEN <<>>
    ELSE InsertDesc(SortDesc(SubSeq(docs, 1, Len(docs) - 1)), docs[Len(docs)])

\* FlashrankRerank(top_n=8): the top_n best passages, best first
Rerank(docs) == SubSeq(SortDesc(docs), 1, Min(TopN, Len(docs)))

\* variant: the chain uses the base retriever, without the compressor
CompressionRetrieverBaseOnly(docs) == docs

\* ContextualCompressionRetriever(base_compressor, base_retriever): the
\* passages found by the base retriever go through the compressor
CompressionRetriever(docs) == Rerank(docs)

(* ------------------------------ RAG chain ------------------------------ *)

\* variant: the label is enumerate's 0-based index
FormatDocsWithIdsZeroBased(docs) ==
    IF docs = <<>>
    THEN [text |-> "Nessun documento trovato.", blocks |-> <<>>]
    ELSE [text |-> "blocks",
          blocks |-> [j \in 1..Len(docs) |->
                        LET i == j - 1
                        IN  [label |-> i, doc |-> docs[i + 1].id]]]

\* variant: no special case for an empty list, the join of no blocks is ""
FormatDocsWithIdsNoMarker(docs) ==
    [text |-> IF docs = <<>> THEN "" ELSE "blocks",
     blocks |-> [j \in 1..Len(docs) |->
                   LET i == j - 1
                   IN  [label |-> i + 1, doc |-> docs[i + 1].id]]]

\* format_docs_with_ids: the no-documents marker for an empty list, else
\* one block per passage, labelled doc-(i+1) for enumerate's index i
FormatDocsWithIds(docs) ==
    IF docs = <<>>
    THEN [text |-> "Nessun documento trovato.", blocks |-> <<>>]
    ELSE [text |-> "blocks",
          blocks |-> [j \in 1..Len(docs) |->
                        LET i == j - 1
                        IN  [label |-> i + 1, doc |-> docs[i + 1].id]]]

NoContext == [text |-> "", blocks |-> <<>>]

\* .pick(["answer", "source_documents"]) of the RAG chain
RagChainResult(answer, docs) ==
    [kind |-> "dict", answer |-> answer, source_documents |-> docs]

\* StrOutputParser() at the end of the conversational and refusal chains
StrChainResult(text) ==
    [kind |-> "str", answer |-> text, source_documents |-> <<>>]

NoChainResult == [kind |-> "none", answer |-> "", source_documents |-> <<>>]

(* ---------------------------- get_response ----------------------------- *)

\* variant: only the empty string is rejected, strip() is forgotten
IsInvalidQueryNoStrip(q) == q = <<>>

\* not query or not query.strip()
IsInvalidQuery(q) == q = <<>> \/ Strip(q) = <<>>

\* variant: the evidence is cut to its first three passages
NormalizeResponseTruncates(r) ==
    IF r.kind = "dict"
    THEN [answer |-> r.answer,
          source_documents |-> SubSeq(r.source_documents, 1, Min(3, Len(r.source_documents)))]
    ELSE [answer |-> r.answer, source_documents |-> <<>>]

\* variant: a result that is no dict gets the default answer of dict.get
NormalizeResponseDefaultAnswer(r) ==
    IF r.kind = "dict"
    THEN [answer |-> r.answer, source_documents |-> r.source_documents]
    ELSE [answer |-> "Risposta non disponibile.", source_documents |-> <<>>]

\* _normalize_response
NormalizeResponse(r) ==
    IF r.kind = "dict"
    THEN [answer |-> r.answer, source_documents |-> r.source_documents]
    ELSE [answer |-> r.answer, source_documents |-> <<>>]

\* variant: the exception is re-raised to the caller
GetResponseExceptReraises == [outcome |-> "raised", result |-> NoResult]

\* variant: the error answer carries the passages retrieved so far
GetResponseExceptKeepsEvidence ==
    [outcome |-> "returned",
     result |-> [answer |-> TechnicalErrorResult.answer,
                 source_documents |-> source_documents]]

\* variant: the text of the exception is put into the answer
GetResponseExceptLeaksText ==
    [outcome |-> "returned",
     result |-> [answer |-> "Errore: testo dell'eccezione", source_documents |-> <<>>]]

\* except Exception: the fixed answer is returned, nothing is re-raised
GetResponseExcept == [outcome |-> "returned", result |-> TechnicalErrorResult]

\* log_error: one more entry in backend_errors.log
LogError(log, detail) == Append(log, detail)

\* variant: one attempt too many
MayRetryOffByOne(n) == n <= MaxRetries

\* a model call that failed n times is tried again while n < max_retries
MayRetry(n) == n < MaxRetries

\* no rendering yet
NoText == [placeholder |-> FALSE, bullets |-> <<>>, has_more |-> FALSE, more |-> 0]

\* no status probed yet
NoStatus ==
    [status |-> "none", has_flags |-> FALSE, llm_main_available |-> FALSE,
     llm_router_available |-> FALSE, retriever_available |-> FALSE,
     chain_available |-> FALSE, document_count |-> 0, knowledge_scope_items |-> 0]

(* ----------------------- _format_knowledge_scope ----------------------- *)

\* the text for an empty scope: "Nessun ambito specifico definito."
PlaceholderText == [placeholder |-> TRUE, bullets |-> <<>>, has_more |-> FALSE, more |-> 0]

\* self.knowledge_scope[:8], one bullet for each item
ScopeItems(ks) == SubSeq(ks.topics, 1, Min(ScopeShown, Len(ks.topics)))

\* variant: the suffix is added from eight topics on
ScopeHasMoreFromEight(ks) == Len(ks.topics) >= ScopeShown

\* len(self.knowledge_scope) > 8
ScopeHasMore(ks) == Len(ks.topics) > ScopeShown

\* len(self.knowledge_scope) - 8
ScopeMore(ks) == Len(ks.topics) - ScopeShown

\* _format_knowledge_scope run without interruption on the list ks
FormatKnowledgeScope(ks) ==
    IF ~Truthy(ks) THEN PlaceholderText
    ELSE [placeholder |-> FALSE,
          bullets |-> ScopeItems(ks),
          has_more |-> ScopeHasMore(ks),
          more |-> IF ScopeHasMore(ks) THEN ScopeMore(ks) ELSE 0]

(* -------------------------- get_system_status -------------------------- *)

\* get_system_status: len() of a scope that is a number raises inside the
\* outer try, and the probe answers with the error status alone
SystemStatus(count_fails) ==
    IF knowledge_scope.kind = "number"
    THEN [NoStatus EXCEPT !.status = "error"]
    ELSE [status |-> IF llm_main /\ llm_router /\ compression_retriever /\ full_chain
                     THEN "operational" ELSE "degraded",
          has_flags |-> TRUE,
          llm_main_available |-> llm_main,
          llm_router_available |-> llm_router,
          retriever_available |-> compression_retriever,
          chain_available |-> full_chain,
          document_count |-> IF ~compression_retriever THEN 0
                             ELSE IF count_fails THEN -1 ELSE 1,
          knowledge_scope_items |-> Len(knowledge_scope.topics)]

(* ------------------------------ chat window ---------------------------- *)

\* an answer text is a sequence of pieces: a run of plain characters, or a
\* bracket [doc-..] holding the passage indices it cites
PlainText(chars) == [kind |-> "text", chars |-> chars, idxs |-> <<>>]

Marker(idxs) == [kind |-> "marker", chars |-> <<>>, idxs |-> idxs]

\* the marker forms the rag_template asks for: [doc-N] after a statement
\* (instruction 3) and [doc-N, doc-M] for a statement with several sources
\* (instruction 4)
PromptMarkerForms ==
    {Marker(<<n>>) : n \in 1..MaxCite}
    \cup {Marker(<<a, b>>) : a \in 1..MaxCite, b \in 2..MaxCite}

\* the pieces of the answers the main model may give: plain text, the
\* forms of the prompt, and [doc-0], which the prompt never asks for
AnswerTokens == {PlainText(<<"a">>), Marker(<<0>>)} \cup PromptMarkerForms

\* an evidence list of length n; the ids differ from the positions
Evidence(n) == [i \in 1..n |-> [id |-> 2 * i, score |-> 1]]

\* the response dicts the chat window may have to render
CiteResponses ==
    {[answer |-> t, source_documents |-> Evidence(n)] :
        t \in SeqsUpTo(AnswerTokens, MaxAnswerLen), n \in 0..MaxSources}

\* citation_pattern = r'\[doc-(\d+)\]': an opening bracket, doc-, one
\* number, a closing bracket; a bracket with two indices has no match
CitationPattern(tok) == tok.kind = "marker" /\ Len(tok.idxs) = 1

\* variant: only the upper end of the range is tested
CitationInRangeUpperOnly(doc_index, sources) == doc_index < Len(sources)

\* 0 <= doc_index < len(sources)
CitationInRange(doc_index, sources) == 0 <= doc_index /\ doc_index < Len(sources)

\* sources[doc_index] on a Python list: a negative index counts from the
\* end, an index outside the list raises IndexError
ListItem(sources, doc_index) ==
    IF 0 <= doc_index /\ doc_index < Len(sources)
    THEN [fault |-> FALSE, value |-> sources[doc_index + 1]]
    ELSE IF doc_index < 0 /\ 0 - doc_index <= Len(sources)
    THEN [fault |-> FALSE, value |-> sources[Len(sources) + doc_index + 1]]
    ELSE [fault |-> TRUE, value |-> [id |-> 0, score |-> 0]]

\* text_widget.insert("end", ...): the piece shown as it is
TextPart(tok) == [kind |-> "text", chars |-> tok.chars, idxs |-> tok.idxs, docs |-> <<>>]

\* the citation button: its label and the passage its command opens
ButtonPart(label, doc) ==
    [kind |-> "button", chars |-> <<>>, idxs |-> <<label>>, docs |-> <<doc>>]

\* the body of the loop over re.finditer for one piece of the text
CitationPart(tok, sources) ==
    IF ~CitationPattern(tok)
    THEN [fault |-> FALSE, part |-> TextPart(tok)]
    ELSE LET doc_index == tok.idxs[1] - 1
         IN  IF CitationInRange(doc_index, sources)
             THEN [fault |-> ListItem(sources, doc_index).fault,
                   part |-> ButtonPart(doc_index + 1, ListItem(sources, doc_index).value)]
             ELSE [fault |-> FALSE, part |-> TextPart(tok)]

\* _create_message_with_sources
CreateMessageWithSources(text, sources) ==
    [kind |-> "sources",
     fault |-> \E i \in 1..Len(text) : CitationPart(text[i], sources).fault,
     parts |-> [i \in 1..Len(text) |-> CitationPart(text[i], sources).part]]

\* _create_simple_message: one label with the whole text
CreateSimpleMessage(text) ==
    [kind |-> "simple",
     fault |-> FALSE,
     parts |-> [i \in 1..Len(text) |-> TextPart(text[i])]]

\* _add_message: citations are resolved only for an assistant message that
\* carries sources
AddMessage(response_dict, role) ==
    LET w == IF role = "assistant" /\ response_dict.source_documents # <<>>
             THEN CreateMessageWithSources(response_dict.answer,
                                           response_dict.source_documents)
             ELSE CreateSimpleMessage(response_dict.answer)
    IN  [role |-> role, response |-> response_dict, kind |-> w.kind,
         fault |-> w.fault, parts |-> w.parts]

\* the message _on_send_message adds for the prompt
UserMessage(prompt) == [answer |-> <<PlainText(prompt)>>, source_documents |-> <<>>]

\* the message _show_welcome_message adds at startup
WelcomeMessage == [answer |-> <<PlainText(<<"benvenuto">>)>>, source_documents |-> <<>>]

\* the response dict of the except clause of _get_ai_response
FallbackResponse ==
    [answer |-> <<PlainText(<<"problema tecnico">>)>>, source_documents |-> <<>>]

\* what backend.get_response may do for the worker thread: return an
\* answer without evidence, return an answer that cites its evidence, raise
BackendOutcomes ==
    {[raises |-> FALSE, value |-> [answer |-> <<PlainText(<<"a">>)>>,
                                  source_documents |-> <<>>]],
     [raises |-> FALSE, value |-> [answer |-> <<PlainText(<<"a">>), Marker(<<1>>)>>,
                                  source_documents |-> Evidence(1)]],
     [raises |-> TRUE, value |-> FallbackResponse]}

\* variant: the controls are never disabled
SetInputStateAlwaysNormal(enabled) == "normal"

\* _set_input_state: the state given to the entry and to the send button
SetInputState(enabled) == IF enabled THEN "normal" ELSE "disabled"

(* ------------------------- several calls in flight --------------------- *)

\* the callers of get_response
Requests == {1, 2}

\* the queries of the callers: a blank one and a valid one
ConcQueries == {<<" ">>, <<"a">>}

\* the locals of a get_response call that has not started
NewRequest ==
    [pc |-> "idle", query |-> <<>>, raw_response |-> "unset", destination |-> "none",
     strategy |-> "none", candidates |-> <<>>, source_documents |-> <<>>,
     chain_result |-> NoChainResult, raised |-> "none", result |-> NoResult]

\* the except clause of get_response for the call with locals x
Failed(x, step) ==
    [x EXCEPT !.pc = "done", !.raised = step, !.result = GetResponseExcept.result]

\* variant: the chain keeps its intermediate dict in one place for all calls
XSourceDocumentsShared(rs, r) == rs[1].source_documents

\* x["source_documents"]: the entry of the dict of this invocation of the chain
XSourceDocuments(rs, r) == rs[r].source_documents

\* no chat window, no concurrent call
FrontIdle ==
    /\ ui_entry = <<>>
    /\ ui_state = "normal"
    /\ ui_threads = <<>>
    /\ ui_after = <<>>
    /\ ui_chat = <<>>
    /\ reqs = [r \in Requests |-> NewRequest]

(* -------------------------------- Init --------------------------------- *)

\* the request fields while no request is running
RequestIdle ==
    /\ pc = "idle"
    /\ query = <<>>
    /\ calls = <<>>
    /\ raw_response = "unset"
    /\ destination = "none"
    /\ strategies = <<>>
    /\ candidates = <<>>
    /\ source_documents = <<>>
    /\ context = NoContext
    /\ chain_result = NoChainResult
    /\ raised = "none"
    /\ outcome = "none"
    /\ attempts = 0
    /\ console = <<>>
    /\ result = NoResult

\* no rendering of the scope in progress, no status probed, nothing logged
OutsideIdle ==
    /\ reloads = 0
    /\ rd_pc = "idle"
    /\ rd_seen = {}
    /\ rd_items = <<>>
    /\ rd_text = NoText
    /\ status = NoStatus
    /\ fault_log = <<>>
    /\ reload_error = "none"
    /\ FrontIdle

\* the state __init__ leaves: both models loaded (a failure there aborts the
\* construction), the retriever as the index allowed, the chain built on it
Init ==
    /\ index_state \in IndexStates
    /\ llm_main = TRUE
    /\ llm_router = TRUE
    /\ compression_retriever = InitializeRetriever(index_state)
    /\ full_chain = BuildChainArchitecture(compression_retriever)
    /\ scope_source = [kind |-> "absent", n |-> 0]
    /\ constructed = "ok"
    /\ knowledge_scope = LoadKnowledgeScope(scope_source).scope
    /\ RequestIdle
    /\ OutsideIdle

(* ------------------------------- actions ------------------------------- *)

\* the except clause of get_response, entered from the step that raised
Except(step) ==
    /\ raised' = step
    /\ console' = Append(console, step)
    /\ UNCHANGED attempts
    /\ outcome' = GetResponseExcept.outcome
    /\ result' = GetResponseExcept.result
    /\ pc' = "done"

\* get_response is called: the two guards, then full_chain.invoke starts
\* with the classification chain
GetResponse(q) ==
    /\ pc = "idle"
    /\ query' = q
    /\ IF IsInvalidQuery(q)
       THEN /\ result' = InvalidQueryResult
            /\ outcome' = "returned"
            /\ pc' = "done"
       ELSE IF ~full_chain
       THEN /\ result' = UnavailableResult
            /\ outcome' = "returned"
            /\ pc' = "done"
       ELSE /\ pc' = "classify"
            /\ UNCHANGED <<result, outcome>>
    /\ UNCHANGED <<outside, attempts, console, calls, raw_response, destination, strategies, candidates,
                   source_documents, context, chain_result, raised>>

\* the router model answers; the classification chain yields the
\* destination and the branch starts the chain it selects, or the
\* structured-output parsing raises
Classify(raw) ==
    /\ pc = "classify"
    /\ calls' = Append(calls, "llm_router")
    /\ raw_response' = raw
    /\ LET c == ClassificationChain(raw)
       IN  IF c.raises
           THEN /\ Except("classify")
                /\ UNCHANGED <<destination, strategies>>
           ELSE /\ destination' = c.destination
                /\ strategies' = Append(strategies, Branch(c.destination))
                /\ pc' = ChainEntry(Branch(c.destination))
                /\ attempts' = 0
                /\ UNCHANGED <<raised, console, outcome, result>>
    /\ UNCHANGED <<outside, query, candidates, source_documents, context, chain_result>>

\* an attempt of the call to the router model fails and the client, which
\* has retries left, tries again
ClassifyAttemptFails ==
    /\ pc = "classify"
    /\ MayRetry(attempts)
    /\ attempts' = attempts + 1
    /\ UNCHANGED <<outside, pc, query, calls, raw_response, destination, strategies,
                   candidates, source_documents, context, chain_result, raised,
                   console, outcome, result>>

\* the call to the router model fails for good: its retries are exhausted
\* or the failure is not one the client retries
ClassifyRaises ==
    /\ pc = "classify"
    /\ calls' = Append(calls, "llm_router")
    /\ Except("classify")
    /\ UNCHANGED <<outside, query, raw_response, destination, strategies, candidates,
                   source_documents, context, chain_result>>

\* Stage 1: the similarity search returns up to k candidates; with none the
\* compressor is skipped and the RAG chain goes on with an empty list
Search(docs) ==
    /\ pc = "search"
    /\ Len(docs) <= SearchK
    /\ calls' = Append(calls, "search")
    /\ candidates' = docs
    /\ IF docs = <<>>
       THEN /\ source_documents' = <<>>
            /\ context' = FormatDocsWithIds(<<>>)
            /\ pc' = "generate"
       ELSE /\ pc' = "rerank"
            /\ UNCHANGED <<source_documents, context>>
    /\ UNCHANGED <<outside, query, raw_response, destination, strategies, chain_result,
                   raised, attempts, console, outcome, result>>

SearchRaises ==
    /\ pc = "search"
    /\ calls' = Append(calls, "search")
    /\ Except("search")
    /\ UNCHANGED <<outside, query, raw_response, destination, strategies, candidates,
                   source_documents, context, chain_result>>

\* Stage 2: the reranker returns; the RAG chain assigns source_documents,
\* question and context
RerankStep ==
    /\ pc = "rerank"
    /\ calls' = Append(calls, "rerank")
    /\ source_documents' = CompressionRetriever(candidates)
    /\ context' = FormatDocsWithIds(source_documents')
    /\ pc' = "generate"
    /\ UNCHANGED <<outside, query, raw_response, destination, strategies, candidates,
                   chain_result, raised, attempts, console, outcome, result>>

RerankRaises ==
    /\ pc = "rerank"
    /\ calls' = Append(calls, "rerank")
    /\ Except("rerank")
    /\ UNCHANGED <<outside, query, raw_response, destination, strategies, candidates,
                   source_documents, context, chain_result>>

\* the main model answers the prompt of the chain the branch selected
Generate(text) ==
    /\ pc = "generate"
    /\ calls' = Append(calls, "llm_main")
    /\ chain_result' = IF strategies[Len(strategies)] = "rag"
                       THEN RagChainResult(text, source_documents)
                       ELSE StrChainResult(text)
    /\ pc' = "normalize"
    /\ attempts' = 0
    /\ UNCHANGED <<outside, query, raw_response, destination, strategies, candidates,
                   source_documents, context, raised, console, outcome, result>>

\* an attempt of the call to the main model fails and is tried again
GenerateAttemptFails ==
    /\ pc = "generate"
    /\ MayRetry(attempts)
    /\ attempts' = attempts + 1
    /\ UNCHANGED <<outside, pc, query, calls, raw_response, destination, strategies,
                   candidates, source_documents, context, chain_result, raised,
                   console, outcome, result>>

\* the call to the main model fails for good
GenerateRaises ==
    /\ pc = "generate"
    /\ calls' = Append(calls, "llm_main")
    /\ Except("generate")
    /\ UNCHANGED <<outside, query, raw_response, destination, strategies, candidates,
                   source_documents, context, chain_result>>

\* return self._normalize_response(result)
Normalize ==
    /\ pc = "normalize"
    /\ result' = NormalizeResponse(chain_result)
    /\ outcome' = "returned"
    /\ pc' = "done"
    /\ UNCHANGED <<outside, query, calls, raw_response, destination, strategies,
                   candidates, source_documents, context, chain_result, raised,
                   attempts, console>>

\* the normalisation itself raises, still inside the try block
NormalizeRaises ==
    /\ pc = "normalize"
    /\ Except("normalize")
    /\ UNCHANGED <<outside, query, calls, raw_response, destination, strategies,
                   candidates, source_documents, context, chain_result>>

\* variant: what the retrieval found stays for the next query
ReturnKeepsRetrieval ==
    /\ pc = "done"
    /\ pc' = "idle"
    /\ query' = <<>>
    /\ calls' = <<>>
    /\ raw_response' = "unset"
    /\ destination' = "none"
    /\ strategies' = <<>>
    /\ context' = NoContext
    /\ raised' = "none"
    /\ attempts' = 0
    /\ console' = <<>>
    /\ outcome' = "none"
    /\ result' = NoResult
    /\ UNCHANGED <<outside, candidates, source_documents, chain_result>>

\* the caller has the result; the backend is ready for the next query
Return ==
    /\ pc = "done"
    /\ pc' = "idle"
    /\ query' = <<>>
    /\ calls' = <<>>
    /\ raw_response' = "unset"
    /\ destination' = "none"
    /\ strategies' = <<>>
    /\ candidates' = <<>>
    /\ source_documents' = <<>>
    /\ context' = NoContext
    /\ chain_result' = NoChainResult
    /\ raised' = "none"
    /\ attempts' = 0
    /\ console' = <<>>
    /\ outcome' = "none"
    /\ result' = NoResult
    /\ UNCHANGED outside

Next ==
    \/ \E q \in Queries : GetResponse(q)
    \/ \E raw \in RawResponses : Classify(raw)
    \/ ClassifyAttemptFails
    \/ ClassifyRaises
    \/ \E n \in 0..MaxDocs : \E docs \in CandidateLists(n) : Search(docs)
    \/ SearchRaises
    \/ RerankStep
    \/ RerankRaises
    \/ \E text \in LLMTexts : Generate(text)
    \/ GenerateAttemptFails
    \/ GenerateRaises
    \/ Normalize
    \/ NormalizeRaises
    \/ Return

Spec == Init /\ [][Next]_vars

(* ------------------- knowledge scope: load, reload, render ------------- *)

\* the state __init__ leaves for every index and every knowledge-scope
\* source; when _load_knowledge_scope raises, __init__ raises
InitScope ==
    /\ index_state \in IndexStates
    /\ scope_source \in ScopeSources
    /\ llm_main = TRUE
    /\ llm_router = TRUE
    /\ compression_retriever = InitializeRetriever(index_state)
    /\ constructed = IF LoadKnowledgeScope(scope_source).raises THEN "failed" ELSE "ok"
    /\ knowledge_scope = LoadKnowledgeScope(scope_source).scope
    /\ full_chain = IF constructed = "ok"
                    THEN BuildChainArchitecture(compression_retriever)
                    ELSE FALSE
    /\ RequestIdle
    /\ OutsideIdle

\* reload_knowledge_scope(path), for what the path holds; a rendering in
\* progress goes on with the new value
Reload(src) ==
    /\ constructed = "ok"
    /\ reloads < MaxReloads
    /\ reloads' = reloads + 1
    /\ knowledge_scope' = ReloadKnowledgeScope(knowledge_scope, src)
    /\ reload_error' = ReloadError(src)
    /\ rd_seen' = IF rd_pc \in {"check", "slice", "len", "more"}
                  THEN rd_seen \cup {knowledge_scope'}
                  ELSE rd_seen
    /\ UNCHANGED <<index_state, llm_main, llm_router, compression_retriever, full_chain,
                   scope_source, constructed, request, rd_pc, rd_items, rd_text,
                   status, fault_log, front>>

\* the refusal chain evaluates its knowledge_scope entry
RenderStart ==
    /\ constructed = "ok"
    /\ full_chain
    /\ rd_pc = "idle"
    /\ rd_pc' = "check"
    /\ rd_seen' = {knowledge_scope}
    /\ UNCHANGED <<backend, request, reloads, rd_items, rd_text, status, fault_log, reload_error, front>>

\* if not self.knowledge_scope: return the placeholder
RenderCheck ==
    /\ rd_pc = "check"
    /\ IF ~Truthy(knowledge_scope)
       THEN /\ rd_text' = PlaceholderText
            /\ rd_pc' = "done"
       ELSE /\ rd_pc' = "slice"
            /\ UNCHANGED rd_text
    /\ UNCHANGED <<backend, request, reloads, rd_seen, rd_items, status, fault_log, reload_error, front>>

\* scope_items = self.knowledge_scope[:8]; formatted = the bullets
RenderSlice ==
    /\ rd_pc = "slice"
    /\ IF knowledge_scope.kind = "number"
       THEN /\ rd_pc' = "raised"
            /\ UNCHANGED <<rd_items, rd_text>>
       ELSE /\ rd_items' = ScopeItems(knowledge_scope)
            /\ rd_text' = [placeholder |-> FALSE, bullets |-> rd_items',
                           has_more |-> FALSE, more |-> 0]
            /\ rd_pc' = "len"
    /\ UNCHANGED <<backend, request, reloads, rd_seen, status, fault_log, reload_error, front>>

\* if len(self.knowledge_scope) > 8
RenderLen ==
    /\ rd_pc = "len"
    /\ rd_pc' = IF knowledge_scope.kind = "number" THEN "raised"
                ELSE IF ScopeHasMore(knowledge_scope) THEN "more"
                ELSE "done"
    /\ UNCHANGED <<backend, request, reloads, rd_seen, rd_items, rd_text, status,
                   fault_log, reload_error, front>>

\* formatted += the suffix with len(self.knowledge_scope) - 8
RenderMore ==
    /\ rd_pc = "more"
    /\ IF knowledge_scope.kind = "number"
       THEN /\ rd_pc' = "raised"
            /\ UNCHANGED rd_text
       ELSE /\ rd_text' = [rd_text EXCEPT !.has_more = TRUE,
                                          !.more = ScopeMore(knowledge_scope)]
            /\ rd_pc' = "done"
    /\ UNCHANGED <<backend, request, reloads, rd_seen, rd_items, status, fault_log, reload_error, front>>

\* the text goes into the refusal prompt, or the exception leaves the chain
RenderReturn ==
    /\ rd_pc \in {"done", "raised"}
    /\ rd_pc' = "idle"
    /\ rd_seen' = {}
    /\ rd_items' = <<>>
    /\ rd_text' = NoText
    /\ UNCHANGED <<backend, request, reloads, status, fault_log, reload_error, front>>

NextScope ==
    \/ \E src \in ScopeSources : Reload(src)
    \/ RenderStart
    \/ RenderCheck
    \/ RenderSlice
    \/ RenderLen
    \/ RenderMore
    \/ RenderReturn

SpecScope == InitScope /\ [][NextScope]_vars

\* get_system_status is called; counting the documents may fail
GetSystemStatus(count_fails) ==
    /\ constructed = "ok"
    /\ status' = SystemStatus(count_fails)
    /\ UNCHANGED <<backend, request, render, fault_log, front>>

NextStatus ==
    \/ \E src \in ScopeSources : Reload(src)
    \/ \E count_fails \in BOOLEAN : GetSystemStatus(count_fails)

SpecStatus == InitScope /\ [][NextStatus]_vars

(* ------------------------------ chat window ---------------------------- *)

\* the messages of the user and of the assistant in the chat history
UserCount == Cardinality({i \in 1..Len(ui_chat) : ui_chat[i].role = "user"})

AssistantCount == Cardinality({i \in 1..Len(ui_chat) : ui_chat[i].role = "assistant"})

\* ChatApp.__init__: empty entry, controls enabled, the welcome message shown
InitUI ==
    /\ index_state = "populated"
    /\ llm_main = TRUE
    /\ llm_router = TRUE
    /\ compression_retriever = InitializeRetriever(index_state)
    /\ full_chain = BuildChainArchitecture(compression_retriever)
    /\ scope_source = [kind |-> "absent", n |-> 0]
    /\ constructed = "ok"
    /\ knowledge_scope = LoadKnowledgeScope(scope_source).scope
    /\ RequestIdle
    /\ reloads = 0
    /\ rd_pc = "idle"
    /\ rd_seen = {}
    /\ rd_items = <<>>
    /\ rd_text = NoText
    /\ status = NoStatus
    /\ fault_log = <<>>
    /\ reload_error = "none"
    /\ ui_entry = <<>>
    /\ ui_state = "normal"
    /\ ui_threads = <<>>
    /\ ui_after = <<>>
    /\ ui_chat = <<AddMessage(WelcomeMessage, "assistant")>>
    /\ reqs = [r \in Requests |-> NewRequest]

\* the user edits the entry, which takes input only while it is enabled
TypeText(q) ==
    /\ ui_state = "normal"
    /\ ui_entry' = q
    /\ UNCHANGED <<backend, request, render, status, fault_log, ui_state, ui_threads,
                   ui_after, ui_chat, reqs>>

\* _on_send_message: called by the Return key of the entry (event "Return")
\* or by the send button (event "none"), which acts only while enabled
OnSendMessage(event) ==
    /\ event = "none" => ui_state = "normal"
    /\ UserCount < MaxSends
    /\ LET prompt == Strip(ui_entry)
       IN  IF prompt = <<>>
           THEN UNCHANGED <<ui_entry, ui_state, ui_threads, ui_chat>>
           ELSE /\ ui_chat' = Append(ui_chat, AddMessage(UserMessage(prompt), "user"))
                /\ ui_entry' = <<>>
                /\ ui_state' = SetInputState(FALSE)
                /\ ui_threads' = Append(ui_threads, prompt)
    /\ UNCHANGED <<backend, request, render, status, fault_log, ui_after, reqs>>

\* _get_ai_response in the worker thread i: the backend returns or raises,
\* and the response dict is posted to the main thread
GetAiResponse(i, resp) ==
    /\ i \in 1..Len(ui_threads)
    /\ ui_after' = Append(ui_after, IF resp.raises THEN FallbackResponse ELSE resp.value)
    /\ ui_threads' = [j \in 1..(Len(ui_threads) - 1) |->
                        IF j < i THEN ui_threads[j] ELSE ui_threads[j + 1]]
    /\ UNCHANGED <<backend, request, render, status, fault_log, ui_entry, ui_state,
                   ui_chat, reqs>>

\* _display_ai_response, run by the main loop: the message is added, then
\* the controls are enabled; a fault in _add_message ends the callback
DisplayAiResponse ==
    /\ ui_after # <<>>
    /\ ui_chat' = Append(ui_chat, AddMessage(Head(ui_after), "assistant"))
    /\ ui_state' = IF AddMessage(Head(ui_after), "assistant").fault
                   THEN ui_state
                   ELSE SetInputState(TRUE)
    /\ ui_after' = Tail(ui_after)
    /\ UNCHANGED <<backend, request, render, status, fault_log, ui_entry, ui_threads,
                   reqs>>

NextUI ==
    \/ \E q \in Queries : TypeText(q)
    \/ \E event \in {"Return", "none"} : OnSendMessage(event)
    \/ \E i \in 1..MaxSends : \E resp \in BackendOutcomes : GetAiResponse(i, resp)
    \/ DisplayAiResponse

\* a started thread runs to its end, and the main loop runs the callbacks
\* posted with after
SpecUI ==
    /\ InitUI
    /\ [][NextUI]_vars
    /\ WF_vars(\E i \in 1..MaxSends : \E resp \in BackendOutcomes : GetAiResponse(i, resp))
    /\ WF_vars(DisplayAiResponse)

\* a response dict is waiting for _display_ai_response
InitCite ==
    /\ index_state = "populated"
    /\ llm_main = TRUE
    /\ llm_router = TRUE
    /\ compression_retriever = InitializeRetriever(index_state)
    /\ full_chain = BuildChainArchitecture(compression_retriever)
    /\ scope_source = [kind |-> "absent", n |-> 0]
    /\ constructed = "ok"
    /\ knowledge_scope = LoadKnowledgeScope(scope_source).scope
    /\ RequestIdle
    /\ reloads = 0
    /\ rd_pc = "idle"
    /\ rd_seen = {}
    /\ rd_items = <<>>
    /\ rd_text = NoText
    /\ status = NoStatus
    /\ fault_log = <<>>
    /\ reload_error = "none"
    /\ ui_entry = <<>>
    /\ ui_state = "disabled"
    /\ ui_threads = <<>>
    /\ \E r \in CiteResponses : ui_after = <<r>>
    /\ ui_chat = <<>>
    /\ reqs = [r \in Requests |-> NewRequest]

NextCite == DisplayAiResponse

SpecCite == InitCite /\ [][NextCite]_vars

(* ------------------------- several calls in flight --------------------- *)

\* get_response is called by caller r: the two guards
CallGetResponse(r, q) ==
    /\ reqs[r].pc = "idle"
    /\ reqs' = [reqs EXCEPT ![r] =
                  IF IsInvalidQuery(q)
                  THEN [@ EXCEPT !.query = q, !.pc = "done", !.result = InvalidQueryResult]
                  ELSE IF ~full_chain
                  THEN [@ EXCEPT !.query = q, !.pc = "done", !.result = UnavailableResult]
                  ELSE [@ EXCEPT !.query = q, !.pc = "classify"]]
    /\ UNCHANGED <<backend, request, render, status, fault_log, window>>

\* the router model answers the call of r
CallClassify(r, raw) ==
    /\ reqs[r].pc = "classify"
    /\ reqs' = [reqs EXCEPT ![r] =
                  IF ClassificationChain(raw).raises
                  THEN Failed([@ EXCEPT !.raw_response = raw], "classify")
                  ELSE [@ EXCEPT !.raw_response = raw,
                                 !.destination = ClassificationChain(raw).destination,
                                 !.strategy = Branch(ClassificationChain(raw).destination),
                                 !.pc = ChainEntry(Branch(ClassificationChain(raw).destination))]]
    /\ UNCHANGED <<backend, request, render, status, fault_log, window>>

\* the collaborator call r is waiting for raises
CallRaises(r) ==
    /\ reqs[r].pc \in {"classify", "search", "rerank", "generate"}
    /\ reqs' = [reqs EXCEPT ![r] = Failed(reqs[r], reqs[r].pc)]
    /\ UNCHANGED <<backend, request, render, status, fault_log, window>>

\* the similarity search answers the call of r
CallSearch(r, docs) ==
    /\ reqs[r].pc = "search"
    /\ reqs' = [reqs EXCEPT ![r] =
                  [@ EXCEPT !.candidates = docs,
                            !.pc = IF docs = <<>> THEN "generate" ELSE "rerank"]]
    /\ UNCHANGED <<backend, request, render, status, fault_log, window>>

\* the reranker answers the call of r
CallRerank(r) ==
    /\ reqs[r].pc = "rerank"
    /\ reqs' = [reqs EXCEPT ![r] =
                  [@ EXCEPT !.source_documents = CompressionRetriever(reqs[r].candidates),
                            !.pc = "generate"]]
    /\ UNCHANGED <<backend, request, render, status, fault_log, window>>

\* the main model answers the call of r
CallGenerate(r, text) ==
    /\ reqs[r].pc = "generate"
    /\ reqs' = [reqs EXCEPT ![r] =
                  [@ EXCEPT !.chain_result =
                                IF reqs[r].strategy = "rag"
                                THEN RagChainResult(text, XSourceDocuments(reqs, r))
                                ELSE StrChainResult(text),
                            !.pc = "normalize"]]
    /\ UNCHANGED <<backend, request, render, status, fault_log, window>>

\* _normalize_response and the return of the call of r
CallNormalize(r) ==
    /\ reqs[r].pc = "normalize"
    /\ reqs' = [reqs EXCEPT ![r] =
                  [@ EXCEPT !.result = NormalizeResponse(reqs[r].chain_result), !.pc = "done"]]
    /\ UNCHANGED <<backend, request, render, status, fault_log, window>>

NextConc ==
    \/ \E r \in Requests : \E q \in ConcQueries : CallGetResponse(r, q)
    \/ \E r \in Requests : \E raw \in RawResponses : CallClassify(r, raw)
    \/ \E r \in Requests : CallRaises(r)
    \/ \E r \in Requests : \E n \in 0..MaxConcDocs : \E docs \in CandidateLists(n) :
          CallSearch(r, docs)
    \/ \E r \in Requests : CallRerank(r)
    \/ \E r \in Requests : \E text \in LLMTexts : CallGenerate(r, text)
    \/ \E r \in Requests : CallNormalize(r)

SpecConc == Init /\ [][NextConc]_vars

(* ------------------------------ properties ----------------------------- *)

\* a query with nothing but whitespace in it
IsBlank(q) == \A i \in 1..Len(q) : q[i] = " "

RetrieverCalled == \E i \in 1..Len(calls) : calls[i] \in {"search", "rerank"}

ModelCalled == \E i \in 1..Len(calls) : calls[i] \in {"llm_router", "llm_main"}

\* C1: for a non-empty query on an available pipeline, when a collaborator
\* call (classification, search, rerank, generation) or the normalisation
\* raises, get_response returns the fixed technical-error answer with empty
\* evidence, and no exception ever reaches the caller.
C1_FailSoft ==
    /\ outcome # "raised"
    /\ (pc = "done" /\ raised # "none")
          => /\ ~IsBlank(query) /\ full_chain
             /\ outcome = "returned"
             /\ result = TechnicalErrorResult
             /\ result.source_documents = <<>>

C1_Witness ==
    /\ pc = "done"
    /\ raised = "rerank"
    /\ ~IsBlank(query)
    /\ full_chain
    /\ result = TechnicalErrorResult

\* C2: for every empty or whitespace-only query, with the pipeline available
\* or not, get_response returns the fixed invalid-query message with empty
\* evidence and calls no collaborator.
C2_BlankQueryRejected ==
    (pc # "idle" /\ IsBlank(query))
        => /\ pc = "done"
           /\ outcome = "returned"
           /\ result = InvalidQueryResult
           /\ result.source_documents = <<>>
           /\ calls = <<>>
           /\ strategies = <<>>

C2_Witness ==
    /\ pc = "done"
    /\ query = <<" ", " ">>
    /\ full_chain
    /\ result = InvalidQueryResult
    /\ calls = <<>>

\* C3 as stated: for all queries, when the retriever is unavailable,
\* get_response returns the fixed unavailable message with empty evidence
\* and the query never reaches a model.
C3_AllQueriesUnavailable ==
    (pc # "idle" /\ ~compression_retriever)
        => /\ pc = "done"
           /\ result = UnavailableResult
           /\ ~ModelCalled

\* C3 amended: for all queries that are not empty or whitespace-only, when
\* the retriever is unavailable, get_response returns the fixed unavailable
\* message with empty evidence and the query never reaches a model.
C3_ValidQueriesUnavailable ==
    (pc # "idle" /\ ~compression_retriever /\ ~IsBlank(query))
        => /\ pc = "done"
           /\ outcome = "returned"
           /\ result = UnavailableResult
           /\ result.source_documents = <<>>
           /\ ~ModelCalled
           /\ calls = <<>>

C3_Witness ==
    /\ pc = "done"
    /\ ~compression_retriever
    /\ query = <<"a">>
    /\ result = UnavailableResult

\* C4: the classifier's output is always one of the three destinations; a
\* raw model response outside them, and no response at all, is coerced to
\* non_pertinente (out_of_scope), so that the refusal strategy answers the
\* query and the request does not end in an error.
C4_OutOfSetCoerced ==
    raw_response # "unset"
        => /\ destination \in RouteQuery
           /\ raw_response \notin RouteQuery
                 => /\ destination = "non_pertinente"
                    /\ strategies = <<"refusal">>
                    /\ raised # "classify"

\* C5: for every classified query exactly one answer strategy runs, chosen
\* by the destination: pertinente the RAG strategy, conversazionale the
\* conversational one, non_pertinente or any other value the refusal one.
C5_OneStrategyByDestination ==
    /\ Len(strategies) <= 1
    /\ destination # "none"
          => strategies = << CASE destination = "pertinente" -> "rag"
                               [] destination = "conversazionale" -> "conversational"
                               [] OTHER -> "refusal" >>
    /\ destination = "none" => strategies = <<>>
    /\ \A d \in RawResponses \ {"pertinente", "conversazionale"} : Branch(d) = "refusal"

C5_Witness ==
    /\ pc = "done"
    /\ destination = "conversazionale"
    /\ strategies = <<"conversational">>
    /\ result.answer \in LLMTexts

\* C6: for every query whose destination is conversazionale or
\* non_pertinente the returned evidence is empty and the retriever is never
\* called during the request.
C6_NoRetrievalOffRagPath ==
    destination \in {"conversazionale", "non_pertinente"}
        => /\ result.source_documents = <<>>
           /\ ~RetrieverCalled
           /\ candidates = <<>> /\ source_documents = <<>>

C6_Witness ==
    /\ pc = "done"
    /\ destination = "non_pertinente"
    /\ raised = "none"
    /\ result.answer \in LLMTexts
    /\ result.source_documents = <<>>

\* C7: in every result get_response returns, on any path, the evidence is
\* non-empty only if the destination was pertinente and the retrieval
\* succeeded; a request whose retrieval succeeded but whose generation
\* failed returns empty evidence.
C7_EvidenceOnlyFromRetrieval ==
    pc = "done"
        => /\ result.source_documents # <<>>
                 => /\ destination = "pertinente"
                    /\ raised \notin {"search", "rerank"}
                    /\ RetrieverCalled
                    /\ source_documents # <<>>
           /\ raised = "generate" => result.source_documents = <<>>

C7_Witness ==
    /\ pc = "done"
    /\ destination = "pertinente"
    /\ source_documents # <<>>
    /\ raised = "generate"
    /\ result.source_documents = <<>>

\* C8: on the pertinente path the evidence of the returned result is exactly
\* the sequence of passages the retriever returned for this request: the
\* same passages in the same order, none added, dropped or moved.
C8_EvidenceIsRetrieverOutput ==
    (pc = "done" /\ destination = "pertinente" /\ raised = "none")
        => /\ result.source_documents = source_documents
           /\ chain_result.source_documents = source_documents

C8_Witness ==
    /\ pc = "done"
    /\ destination = "pertinente"
    /\ raised = "none"
    /\ Len(result.source_documents) > 3
    /\ result.source_documents[1].id # 1

\* C9: for an evidence sequence of length n and every i in 1..n, the context
\* block given to the generation model labels the passage at position i
\* with index i, and that passage is element i of the evidence returned to
\* the caller.
C9_LabelsArePositions ==
    /\ (pc \in {"generate", "normalize", "done"} /\ strategies = <<"rag">>
            /\ source_documents # <<>>)
          => /\ Len(context.blocks) = Len(source_documents)
             /\ \A i \in 1..Len(source_documents) :
                   /\ context.blocks[i].label = i
                   /\ context.blocks[i].doc = source_documents[i].id
    /\ (pc = "done" /\ destination = "pertinente" /\ raised = "none")
          => /\ Len(context.blocks) = Len(result.source_documents)
             /\ \A i \in 1..Len(result.source_documents) :
                   /\ context.blocks[i].label = i
                   /\ context.blocks[i].doc = result.source_documents[i].id

C9_Witness ==
    /\ pc = "done"
    /\ raised = "none"
    /\ Len(result.source_documents) >= 2
    /\ context.blocks[2].label = 2
    /\ context.blocks[2].doc = result.source_documents[2].id
    /\ result.source_documents[2].id # 2

C14_EmptyRetrievalMarker ==
    /\ (pc \in {"generate", "normalize"} /\ strategies = <<"rag">>
            /\ source_documents = <<>>)
          => /\ context.text = "Nessun documento trovato."
             /\ context.text # ""
    /\ (pc = "done" /\ destination = "pertinente" /\ raised = "none"
            /\ source_documents = <<>>)
          => /\ context.text = "Nessun documento trovato."
             /\ result.answer \in LLMTexts
             /\ result.source_documents = <<>>

C14_Witness ==
    /\ pc = "done"
    /\ destination = "pertinente"
    /\ raised = "none"
    /\ calls = <<"llm_router", "search", "llm_main">>
    /\ candidates = <<>>
    /\ context.text = "Nessun documento trovato."
    /\ result.answer \in LLMTexts
    /\ result.source_documents = <<>>

\* C15: the normalisation always yields a result with exactly an answer and
\* an evidence field; the output of a strategy that is not in that form (the
\* text of the conversational and refusal strategies) is returned verbatim
\* as the answer, with empty evidence.
C15_NormalizedShape ==
    (pc = "done" /\ raised = "none" /\ chain_result.kind # "none")
        => /\ DOMAIN result = {"answer", "source_documents"}
           /\ chain_result.kind = "str"
                 => /\ result.answer = chain_result.answer
                    /\ result.source_documents = <<>>

C15_Witness ==
    /\ pc = "done"
    /\ raised = "none"
    /\ strategies = <<"refusal">>
    /\ chain_result.kind = "str"
    /\ chain_result.answer = "testo-2"
    /\ result = [answer |-> "testo-2", source_documents |-> <<>>]

FixedAnswers ==
    {InvalidQueryResult.answer, UnavailableResult.answer, TechnicalErrorResult.answer}

\* C16: in every result get_response returns, the answer is one of the three
\* fixed messages or the text the selected strategy produced; it never holds
\* the text of an exception.
C16_NoExceptionTextInAnswer ==
    pc = "done"
        => /\ \/ result.answer \in FixedAnswers
              \/ /\ raised = "none"
                 /\ strategies # <<>>
                 /\ result.answer = chain_result.answer
                 /\ result.answer \in LLMTexts
           /\ raised # "none" => result.answer = TechnicalErrorResult.answer

C16_Witness ==
    /\ pc = "done"
    /\ raised = "search"
    /\ console = <<"search">>
    /\ result.answer = TechnicalErrorResult.answer

\* C17: whenever a collaborator call fails during get_response and the
\* failure is turned into the technical-error answer, an entry with the
\* detail of the failure is in the fault log before the result is returned.
C17_FailureLogged ==
    (pc = "done" /\ raised # "none")
        => \E i \in 1..Len(fault_log) : fault_log[i] = raised

\* how far the request is from its end: the steps left, then the attempts
RequestMeasure ==
    4 * (CASE pc = "classify" -> 5
           [] pc = "search" -> 4
           [] pc = "rerank" -> 3
           [] pc = "generate" -> 2
           [] pc = "normalize" -> 1
           [] OTHER -> 0)
    - attempts

\* C20: within one request a model call is attempted a bounded number of
\* times, the first attempt and at most 2 retries; when they are used up the
\* call fails, the failure becomes the technical-error result and
\* get_response returns: every step of a request brings it nearer its end.
C20_BoundedRetries ==
    [][ /\ attempts' <= 2
        /\ pc \notin {"idle", "done"} => RequestMeasure' < RequestMeasure
        /\ (pc' = "done" /\ raised' \in {"classify", "generate"})
              => /\ outcome' = "returned"
                 /\ result' = TechnicalErrorResult ]_vars

C20_Witness ==
    /\ pc = "done"
    /\ raised = "generate"
    /\ attempts = 2
    /\ outcome = "returned"
    /\ result = TechnicalErrorResult

\* C11: a reload of the knowledge scope is atomic for concurrent readers: a
\* rendering of the scope that runs while reload_knowledge_scope does gives
\* a text made entirely from the old list or entirely from the new list,
\* the topics shown and the count of further topics from the same list.
C11_RenderFromOneList ==
    rd_pc = "done"
        => \E ks \in rd_seen : rd_text = FormatKnowledgeScope(ks)

\* C12: at startup, for a knowledge-scope source that is absent, not
\* parseable, parseable but malformed (no object with a scope list) or
\* holds an empty scope list, the loading substitutes the built-in default
\* list and the construction of the backend does not fail.
C12_StartupFallsBack ==
    (\/ scope_source.kind \in {"absent", "corrupt", "not_object", "no_scope_key",
                               "scope_number"}
     \/ scope_source = [kind |-> "scope_list", n |-> 0])
        => /\ constructed = "ok"
           /\ reloads = 0 => knowledge_scope = DefaultKnowledgeScope

\* C13: for a knowledge scope of length n the refusal strategy renders the
\* first min(n, 8) topics in their order, one bullet each, and appends the
\* suffix with N = n - 8 further topics exactly when n > 8.
C13_RenderFirstEight ==
    (rd_pc = "done" /\ Cardinality(rd_seen) = 1)
        => \A ks \in rd_seen :
              LET n == Len(ks.topics)
              IN  /\ Len(rd_text.bullets) = Min(n, 8)
                  /\ \A i \in 1..Min(n, 8) : rd_text.bullets[i] = ks.topics[i]
                  /\ rd_text.has_more <=> n > 8
                  /\ rd_text.has_more => rd_text.more = n - 8

C13_Witness ==
    /\ rd_pc = "done"
    /\ rd_seen = {ListScope(FileTopics(9))}
    /\ Len(rd_text.bullets) = 8
    /\ rd_text.has_more
    /\ rd_text.more = 1

\* C18: the status probe reports operational exactly when the
\* classification model, the generation model, the retriever and the
\* pipeline are all available, and degraded when the backend was constructed
\* without retriever; every availability flag it reports is the actual
\* availability of that dependency.
C18_StatusMatchesAvailability ==
    status.status # "none"
        => /\ status.status = "operational"
                 <=> (llm_main /\ llm_router /\ compression_retriever /\ full_chain)
           /\ ~compression_retriever => status.status = "degraded"
           /\ status.has_flags
           /\ status.llm_main_available = llm_main
           /\ status.llm_router_available = llm_router
           /\ status.retriever_available = compression_retriever
           /\ status.chain_available = full_chain

(* ---------------------- properties of single requests ------------------ *)

\* the place of a collaborator call in the pipeline
StepRank(c) ==
    IF c = "llm_router" THEN 1
    ELSE IF c = "search" THEN 2
    ELSE IF c = "rerank" THEN 3
    ELSE 4

Called(c) == \E i \in 1..Len(calls) : calls[i] = c

\* C22: get_response leaves the backend state (models, retriever, pipeline,
\* knowledge scope) unchanged; a request starts with nothing left of an
\* earlier one, and a relevant request that succeeds has called the
\* retriever and the main model itself, its evidence being what its own
\* retrieval returned and its answer what its own generation returned.
C22_AnsweredFresh ==
    [][/\ backend' = backend
       /\ (pc = "idle" /\ pc' # "idle")
            => /\ calls = <<>>
               /\ candidates = <<>>
               /\ source_documents = <<>>
               /\ chain_result = NoChainResult
               /\ result = NoResult
       /\ (pc' = "done" /\ raised' = "none" /\ destination' = "pertinente")
            => /\ calls' \in {<<"llm_router", "search", "rerank", "llm_main">>,
                              <<"llm_router", "search", "llm_main">>}
               /\ result'.source_documents = CompressionRetriever(candidates')
               /\ result'.answer = chain_result'.answer]_vars

C22_Witness ==
    /\ pc = "done"
    /\ raised = "none"
    /\ destination = "pertinente"
    /\ query = <<"a">>
    /\ Len(candidates) = MaxDocs
    /\ result.source_documents # <<>>
    /\ result.answer = "testo-2"

\* C23: the steps of a request are taken one after the other in the order
\* classification, search, rerank, generation: no strategy step is taken
\* before the classification has given the destination, and on the RAG
\* path the main model is called only after the search and, when the
\* search found passages, the rerank have returned.
C23_StepsInOrder ==
    /\ \A i, j \in 1..Len(calls) : i < j => StepRank(calls[i]) < StepRank(calls[j])
    /\ Len(strategies) <= 1
    /\ strategies # <<>> => destination # "none" /\ Called("llm_router")
    /\ (Called("search") \/ Called("rerank") \/ Called("llm_main")) => strategies # <<>>
    /\ (strategies = <<"rag">> /\ Called("llm_main"))
         => /\ Called("search")
            /\ candidates # <<>> => /\ Called("rerank")
                                    /\ source_documents = CompressionRetriever(candidates)

C23_Witness ==
    /\ pc = "normalize"
    /\ strategies = <<"rag">>
    /\ calls = <<"llm_router", "search", "rerank", "llm_main">>
    /\ chain_result.source_documents # <<>>

C25_ScopeNonEmptyList ==
    constructed = "ok" => knowledge_scope.kind = "list" /\ knowledge_scope.topics # <<>>

\* C28: once the backend is constructed the pipeline is available exactly
\* when the retriever is; a status that carries the flags reports the same
\* value for chain_available and retriever_available, and no status is
\* operational while the retriever is unavailable.
C28_ChainIffRetriever ==
    constructed = "ok"
        => /\ full_chain <=> compression_retriever
           /\ status.has_flags => status.chain_available = status.retriever_available
           /\ status.status = "operational"
                => compression_retriever /\ status.retriever_available

C28_Witness ==
    /\ constructed = "ok"
    /\ index_state = "empty"
    /\ status.has_flags
    /\ status.status = "degraded"
    /\ ~status.retriever_available
    /\ ~status.chain_available

\* C30: a reload that fails because its source is missing, cannot be read
\* or cannot be parsed leaves the knowledge scope in memory as it was, and
\* no reload changes any other field of the backend.
C30_FailedReloadKeepsScope ==
    [][reloads' # reloads
         => /\ <<index_state, llm_main, llm_router, compression_retriever, full_chain,
                 scope_source, constructed>>' =
               <<index_state, llm_main, llm_router, compression_retriever, full_chain,
                 scope_source, constructed>>
            /\ reload_error' \in {"FileNotFoundError", "OSError", "JSONDecodeError"}
                 => knowledge_scope' = knowledge_scope]_vars

C30_Witness ==
    /\ reloads = 1
    /\ reload_error = "JSONDecodeError"
    /\ scope_source = [kind |-> "scope_list", n |-> 3]
    /\ knowledge_scope = ListScope(FileTopics(3))

(* ---------------------- properties of the chat window ------------------ *)

\* the assistant messages the chat history shows
Shown == {i \in 1..Len(ui_chat) : ui_chat[i].role = "assistant"}

\* N is a position of the evidence of message m
Cited(m, N) == 1 <= N /\ N <= Len(m.response.source_documents)

\* C26: in a rendered answer with evidence of length n, a marker [doc-N]
\* is a button bound to element N of the evidence exactly when
\* 1 <= N <= n; a marker with N = 0 or N > n is shown as plain text, bound
\* to no passage, and the rendering does not fault.
C26_MarkersBoundInRange ==
    \A k \in Shown :
        LET m == ui_chat[k]
        IN  /\ ~m.fault
            /\ Len(m.parts) = Len(m.response.answer)
            /\ \A i \in 1..Len(m.response.answer) :
                 LET tok == m.response.answer[i]
                 IN  (tok.kind = "marker" /\ Len(tok.idxs) = 1)
                       => IF Cited(m, tok.idxs[1])
                          THEN /\ m.parts[i].kind = "button"
                               /\ m.parts[i].idxs = tok.idxs
                               /\ m.parts[i].docs =
                                    <<m.response.source_documents[tok.idxs[1]]>>
                          ELSE /\ m.parts[i].kind = "text"
                               /\ m.parts[i].idxs = tok.idxs
                               /\ m.parts[i].docs = <<>>

C26_Witness ==
    /\ Len(ui_chat) = 1
    /\ ui_chat[1].response.answer = <<Marker(<<0>>), Marker(<<2>>)>>
    /\ Len(ui_chat[1].response.source_documents) = 2
    /\ ui_chat[1].parts[1].kind = "text"
    /\ ui_chat[1].parts[2].kind = "button"
    /\ ui_chat[1].parts[2].docs = <<[id |-> 4, score |-> 1]>>
    /\ ui_state = "normal"

\* C27: every marker of a form the prompt asks for, the combined form
\* [doc-N, doc-M] included, whose indices are positions of the evidence is
\* rendered as a reference to the passages at these positions.
C27_PromptFormsResolved ==
    \A k \in Shown :
        LET m == ui_chat[k]
        IN  \A i \in 1..Len(m.response.answer) :
              LET tok == m.response.answer[i]
              IN  (/\ tok \in PromptMarkerForms
                   /\ \A j \in 1..Len(tok.idxs) : Cited(m, tok.idxs[j]))
                    => /\ m.parts[i].kind = "button"
                       /\ m.parts[i].docs =
                            [j \in 1..Len(tok.idxs) |->
                               m.response.source_documents[tok.idxs[j]]]

\* a request of the chat window is on its way
InFlight == ui_threads # <<>> \/ ui_after # <<>>

\* C29: at most one request of the chat window is in flight; while it is,
\* the controls are disabled and the entry is empty, and every message of
\* the user has one assistant message or the request in flight; a request
\* in flight, whether the backend returns or raises, leads to a state
\* with its assistant message shown, nothing in flight and the controls
\* enabled.
C29_OneRequestInFlight ==
    /\ [](/\ Len(ui_threads) + Len(ui_after) <= 1
          /\ InFlight => ui_state = "disabled" /\ ui_entry = <<>>
          /\ AssistantCount - 1 + Len(ui_threads) + Len(ui_after) = UserCount
          /\ \A k \in Shown : ~ui_chat[k].fault)
    /\ \A n \in 1..MaxSends :
         (UserCount = n /\ ui_threads # <<>>)
            ~> (AssistantCount - 1 = n /\ ~InFlight /\ ui_state = "normal")

C29_Witness ==
    /\ UserCount = 2
    /\ AssistantCount = 3
    /\ ~InFlight
    /\ ui_state = "normal"
    /\ ui_chat[3].response = FallbackResponse
    /\ ui_chat[5].kind = "sources"

(* ------------------ properties of several calls in flight -------------- *)

\* the destination get_response reaches for the collaborator responses
\* the call with locals x received, when it runs alone
SoloDestination(x) ==
    IF IsInvalidQuery(x.query) \/ ~full_chain \/ x.raw_response = "unset"
       \/ ClassificationChain(x.raw_response).raises
    THEN "none"
    ELSE ClassificationChain(x.raw_response).destination

\* the result get_response returns for these responses when it runs alone
SoloResult(x) ==
    IF IsInvalidQuery(x.query) THEN InvalidQueryResult
    ELSE IF ~full_chain THEN UnavailableResult
    ELSE IF x.raised # "none" THEN GetResponseExcept.result
    ELSE IF Branch(SoloDestination(x)) = "rag"
    THEN NormalizeResponse(RagChainResult(x.chain_result.answer,
                                          CompressionRetriever(x.candidates)))
    ELSE NormalizeResponse(StrChainResult(x.chain_result.answer))

\* C21: under every interleaving of the steps of two get_response calls,
\* the destination, the evidence and the answer of a call that has
\* returned are those the call gets alone from the same collaborator
\* responses.
C21_CallsIndependent ==
    \A r \in Requests :
        reqs[r].pc = "done"
            => /\ reqs[r].destination = SoloDestination(reqs[r])
               /\ reqs[r].result = SoloResult(reqs[r])

C21_Witness ==
    /\ reqs[1].pc = "generate"
    /\ reqs[1].source_documents # <<>>
    /\ reqs[2].pc = "done"
    /\ reqs[2].raised = "none"
    /\ reqs[2].destination = "pertinente"
    /\ reqs[2].result.source_documents # <<>>
    /\ reqs[2].candidates # reqs[1].candidates

====
